---- MODULE Spec2Model ----
(***************************************************************************)
(* Model of template/app/scripts/docling_processor.py: Markdown            *)
(* segmentation (process_sections, DoclingProcessor._create_sections),     *)
(* reading-time estimation, title and formula extraction, and the two      *)
(* command-line entry points.                                              *)
(*                                                                         *)
(* A Python str is a sequence of one-character strings; a list is a        *)
(* sequence; None / a missing attribute is the empty sequence of an        *)
(* "optional" (a sequence of length 0 or 1).                               *)
(***************************************************************************)
EXTENDS Integers, Sequences, FiniteSets, TLC

VARIABLES
    pc,           \* position of the running function or entry point
    arg,          \* its input: a str, a document, or an invocation
    ret,          \* the value a function returned
    frame,        \* local variables of an entry point
    stdout,       \* JSON objects printed to standard output
    exit_status   \* <<>> while running, <<status>> once the process has exited

vars == <<pc, arg, ret, frame, stdout, exit_status>>

-----------------------------------------------------------------------------
(* Bounds of the model                                                     *)

\* number of lines of a Markdown input made of short lines
MaxLines == 4
\* number of lines of a Markdown input that may contain the long body line
MaxBigLines == 3
\* number of blank or over-long lines put in front of a main_text
MaxPrefix == 10
\* number of lines of a main_text after that prefix
MaxTitleLines == 2
\* number of blocks a formula text is concatenated from
MaxFormulaBlocks == 5
\* number of words of the long body line (337 words round to 1 minute at
\* 225 words per minute, 338 words to 2)
BigWords == 337

-----------------------------------------------------------------------------
(* Python str primitives                                                   *)

\* characters str.strip() and str.split() treat as whitespace
Whitespace == {" ", "\t", "\n", "\r"}

NL == "\n"

Min(S) == CHOOSE x \in S : \A y \in S : x <= y

Max(S) == CHOOSE x \in S : \A y \in S : x >= y

\* s[:n]
Take(s, n) == SubSeq(s, 1, IF n < Len(s) THEN n ELSE Len(s))

\* s[n:]  (n is a 0-based offset)
Drop(s, n) == SubSeq(s, n + 1, Len(s))

\* s.startswith(p)
StartsWith(s, p) == Len(s) >= Len(p) /\ SubSeq(s, 1, Len(p)) = p

\* p occurs in s at the 1-based index i
MatchAt(s, p, i) == \A k \in 1..Len(p) : s[i + k - 1] = p[k]

\* s.find(p, from) as a 1-based index, 0 when p does not occur at or after
\* the 1-based index from
Find(s, p, from) ==
    LET last == Len(s) - Len(p) + 1
    IN IF \E i \in from..last : MatchAt(s, p, i)
       THEN CHOOSE i \in from..last :
                MatchAt(s, p, i) /\ \A j \in from..(i - 1) : ~MatchAt(s, p, j)
       ELSE 0

\* p in s
Contains(s, p) == Find(s, p, 1) # 0

\* number of leading characters of s that are in cs
LeadingIn(s, cs) ==
    IF \A i \in 1..Len(s) : s[i] \in cs THEN Len(s)
    ELSE CHOOSE k \in 0..(Len(s) - 1) :
             s[k + 1] \notin cs /\ \A j \in 1..k : s[j] \in cs

\* number of trailing characters of s that are in cs
TrailingIn(s, cs) ==
    IF \A i \in 1..Len(s) : s[i] \in cs THEN Len(s)
    ELSE CHOOSE k \in 0..(Len(s) - 1) :
             s[Len(s) - k] \notin cs /\ \A j \in (Len(s) - k + 1)..Len(s) : s[j] \in cs

\* s.lstrip(cs)
LStrip(s, cs) == SubSeq(s, LeadingIn(s, cs) + 1, Len(s))

\* s.strip(cs); s.strip() is StripChars(s, Whitespace)
StripChars(s, cs) ==
    IF LeadingIn(s, cs) = Len(s) THEN <<>>
    ELSE SubSeq(s, LeadingIn(s, cs) + 1, Len(s) - TrailingIn(s, cs))

Strip(s) == StripChars(s, Whitespace)

\* s.split('\n'): always at least one line
RECURSIVE Split(_)
Split(s) ==
    LET i == Find(s, <<NL>>, 1)
    IN IF i = 0 THEN <<s>>
       ELSE <<SubSeq(s, 1, i - 1)>> \o Split(Drop(s, i))

\* '\n'.join(lines)
RECURSIVE Join(_)
Join(lines) ==
    IF lines = <<>> THEN <<>>
    ELSE IF Len(lines) = 1 THEN lines[1]
    ELSE lines[1] \o <<NL>> \o Join(Tail(lines))

\* len(s.split()): the number of maximal runs of non-whitespace characters
WordCount(s) ==
    Cardinality({i \in 1..Len(s) :
                    s[i] \notin Whitespace /\ (i = 1 \/ s[i - 1] \in Whitespace)})

\* s.count('\n')
CountNL(s) == Cardinality({i \in 1..Len(s) : s[i] = NL})

\* Python 3 round(n / d) for integers n >= 0, d > 0: round half to even
RoundDiv(n, d) ==
    LET q == n \div d
        r == n % d
    IN IF 2 * r < d THEN q
       ELSE IF 2 * r > d THEN q + 1
       ELSE IF q % 2 = 0 THEN q ELSE q + 1

-----------------------------------------------------------------------------
(* Function-based variant: estimate_reading_time, process_sections         *)

WordsPerMinute == 225

\* variant: integer division in place of round()
estimate_reading_time_Floor(content) ==
    LET words == WordCount(content)
        minutes == words \div WordsPerMinute
    IN IF minutes > 1 THEN minutes ELSE 1

estimate_reading_time(content) ==
    LET words == WordCount(content)
        minutes == RoundDiv(words, WordsPerMinute)
    IN IF minutes > 1 THEN minutes ELSE 1

ContentTitle == <<"C", "o", "n", "t", "e", "n", "t">>

\* the loop state of process_sections before the first line
PSInit ==
    [sections |-> <<>>, current_section |-> <<>>, section_content |-> <<>>,
     order_index |-> 0]

\* "if current_section and section_content: ... sections.append(current_section)"
PSFlush(st) ==
    IF st.current_section # <<>> /\ st.section_content # <<>>
    THEN LET content == Strip(Join(st.section_content))
         IN Append(st.sections,
                   [st.current_section[1] EXCEPT
                       !.content = content,
                       !.estimated_minutes = estimate_reading_time(content)])
    ELSE st.sections

\* one iteration of "for line in lines"
PSLine(st, line) ==
    IF StartsWith(line, <<"#">>)
    THEN [sections |-> PSFlush(st),
          current_section |->
              <<[title |-> Strip(StripChars(line, {"#"})),
                 content |-> <<>>,
                 order_index |-> st.order_index,
                 estimated_minutes |-> 0]>>,
          section_content |-> <<>>,
          order_index |-> st.order_index + 1]
    ELSE IF Strip(line) # <<>>
         THEN [st EXCEPT !.section_content = Append(@, line)]
         ELSE st

RECURSIVE PSLoop(_, _, _)
PSLoop(lines, i, st) ==
    IF i > Len(lines) THEN st ELSE PSLoop(lines, i + 1, PSLine(st, lines[i]))

\* variant: the section still open at end of input is not appended
process_sections_NoLastSection(markdown_content) ==
    LET st == PSLoop(Split(markdown_content), 1, PSInit)
        sections == st.sections
    IN IF sections = <<>> /\ Strip(markdown_content) # <<>>
       THEN <<[title |-> ContentTitle,
               content |-> Strip(markdown_content),
               order_index |-> 0,
               estimated_minutes |-> estimate_reading_time(markdown_content)]>>
       ELSE sections

\* variant: the catch-all section keeps the untrimmed input
process_sections_RawFallback(markdown_content) ==
    LET st == PSLoop(Split(markdown_content), 1, PSInit)
        sections == PSFlush(st)
    IN IF sections = <<>> /\ Strip(markdown_content) # <<>>
       THEN <<[title |-> ContentTitle,
               content |-> markdown_content,
               order_index |-> 0,
               estimated_minutes |-> estimate_reading_time(markdown_content)]>>
       ELSE sections

process_sections(markdown_content) ==
    LET st == PSLoop(Split(markdown_content), 1, PSInit)
        sections == PSFlush(st)
    IN IF sections = <<>> /\ Strip(markdown_content) # <<>>
       THEN <<[title |-> ContentTitle,
               content |-> Strip(markdown_content),
               order_index |-> 0,
               estimated_minutes |-> estimate_reading_time(markdown_content)]>>
       ELSE sections

-----------------------------------------------------------------------------
(* Class-based variant: DoclingProcessor._create_sections                  *)

ClassWordsPerMinute == 200

_estimate_reading_time(content) ==
    LET word_count == WordCount(content)
        minutes == RoundDiv(word_count, ClassWordsPerMinute)
    IN IF minutes > 1 THEN minutes ELSE 1

IntroductionTitle == <<"I", "n", "t", "r", "o", "d", "u", "c", "t", "i", "o", "n">>

CSInit ==
    [sections |-> <<>>,
     current_section |-> [title |-> IntroductionTitle, content |-> <<>>,
                          order_index |-> 0, estimated_minutes |-> 0],
     section_index |-> 0]

\* "if current_section['content'].strip(): ... sections.append(...)"
CSFlush(st) ==
    IF Strip(st.current_section.content) # <<>>
    THEN Append(st.sections,
                [st.current_section EXCEPT
                    !.estimated_minutes = _estimate_reading_time(st.current_section.content)])
    ELSE st.sections

CSLine(st, line) ==
    LET line_stripped == Strip(line)
    IN IF StartsWith(line_stripped, <<"#", " ">>) \/ StartsWith(line_stripped, <<"#", "#", " ">>)
       THEN [sections |-> CSFlush(st),
             current_section |->
                 [title |-> Strip(LStrip(line_stripped, {"#"})),
                  content |-> line \o <<NL>>,
                  order_index |-> st.section_index + 1,
                  estimated_minutes |-> 0],
             section_index |-> st.section_index + 1]
       ELSE [st EXCEPT !.current_section.content = @ \o line \o <<NL>>]

RECURSIVE CSLoop(_, _, _)
CSLoop(lines, i, st) ==
    IF i > Len(lines) THEN st ELSE CSLoop(lines, i + 1, CSLine(st, lines[i]))

_create_sections(markdown) == CSFlush(CSLoop(Split(markdown), 1, CSInit))

-----------------------------------------------------------------------------
(* extract_title                                                           *)

\* "for line in lines[:10]"
TitleScanLines == 10
\* "len(line.strip()) < 100"
ShortLineLimit == 100
\* "return title[:200]"
TitleLimit == 200

UntitledDocument ==
    <<"U", "n", "t", "i", "t", "l", "e", "d", " ", "D", "o", "c", "u", "m", "e", "n", "t">>

\* the loop over the first lines of doc.main_text: the first line that is a
\* heading or a short non-empty line ends the scan
RECURSIVE ScanTitle(_, _)
ScanTitle(lines, i) ==
    IF i > Len(lines) THEN UntitledDocument
    ELSE IF StartsWith(lines[i], <<"#">>) THEN Strip(StripChars(lines[i], {"#"}))
    ELSE IF Strip(lines[i]) # <<>> /\ Len(Strip(lines[i])) < ShortLineLimit
         THEN Strip(lines[i])
    ELSE ScanTitle(lines, i + 1)

\* doc.title and doc.main_text are optional attributes: <<>> when the
\* attribute is missing, <<value>> when present (an empty value is falsy)
extract_title(doc) ==
    LET title ==
            IF doc.title # <<>> /\ doc.title[1] # <<>> THEN doc.title[1]
            ELSE IF doc.main_text # <<>>
                 THEN ScanTitle(Take(Split(doc.main_text[1]), TitleScanLines), 1)
                 ELSE UntitledDocument
    IN Take(title, TitleLimit)

-----------------------------------------------------------------------------
(* extract_formulas                                                        *)

BeginEquation ==
    <<"\\", "b", "e", "g", "i", "n", "{", "e", "q", "u", "a", "t", "i", "o", "n", "}">>

EndEquation ==
    <<"\\", "e", "n", "d", "{", "e", "q", "u", "a", "t", "i", "o", "n", "}">>

\* formula_patterns, each OPEN(.*?)CLOSE compiled with re.DOTALL
FormulaPatterns ==
    << [open |-> <<"$", "$">>, close |-> <<"$", "$">>],
       [open |-> <<"$">>, close |-> <<"$">>],
       [open |-> BeginEquation, close |-> EndEquation] >>

\* "formula[:50]" in the description
PreviewLimit == 50

DescriptionPrefix ==
    <<"M", "a", "t", "h", "e", "m", "a", "t", "i", "c", "a", "l", " ",
      "e", "x", "p", "r", "e", "s", "s", "i", "o", "n", ":", " ">>

\* re.finditer(OPEN(.*?)CLOSE, content, re.DOTALL) from the 1-based index
\* from: leftmost OPEN, then the nearest CLOSE at or after its end; the scan
\* resumes after the match.  Each match is [start, group1].
RECURSIVE FindIter(_, _, _, _)
FindIter(content, open, close, from) ==
    LET p == Find(content, open, from)
        q == IF p = 0 THEN 0 ELSE Find(content, close, p + Len(open))
    IN IF p = 0 \/ q = 0 THEN <<>>
       ELSE <<[start |-> p, group1 |-> SubSeq(content, p + Len(open), q - 1)]>>
                \o FindIter(content, open, close, q + Len(close))

FormulaObj(content, match) ==
    LET formula == Strip(match.group1)
    IN [formula |-> formula,
        description |->
            DescriptionPrefix \o Take(formula, PreviewLimit)
                \o (IF Len(formula) > PreviewLimit THEN <<".", ".", ".">> ELSE <<>>),
        type |-> "mathematical",
        line_number |-> CountNL(SubSeq(content, 1, match.start - 1)) + 1]

\* "if formula:" keeps the matches whose trimmed capture is not empty
RECURSIVE FormulasOf(_, _, _)
FormulasOf(content, matches, i) ==
    IF i > Len(matches) THEN <<>>
    ELSE (IF Strip(matches[i].group1) # <<>> THEN <<FormulaObj(content, matches[i])>> ELSE <<>>)
            \o FormulasOf(content, matches, i + 1)

\* variant: the "if formula:" test is missing
RECURSIVE FormulasOf_KeepEmpty(_, _, _)
FormulasOf_KeepEmpty(content, matches, i) ==
    IF i > Len(matches) THEN <<>>
    ELSE <<FormulaObj(content, matches[i])>> \o FormulasOf_KeepEmpty(content, matches, i + 1)

PatternFormulas(content, k) ==
    FormulasOf(content,
               FindIter(content, FormulaPatterns[k].open, FormulaPatterns[k].close, 1), 1)

\* variant: empty captures are kept
extract_formulas_KeepEmpty(content) ==
    LET all(k) == FormulasOf_KeepEmpty(content,
                      FindIter(content, FormulaPatterns[k].open, FormulaPatterns[k].close, 1), 1)
    IN all(1) \o all(2) \o all(3)

extract_formulas(content) ==
    PatternFormulas(content, 1) \o PatternFormulas(content, 2) \o PatternFormulas(content, 3)

-----------------------------------------------------------------------------
(* extract_code_snippets                                                   *)

\* the backquote character (it cannot be written in a TLA+ string)
Backquote == "BACKQUOTE"

Fence == <<Backquote, Backquote, Backquote>>

\* characters \w matches
WordChars ==
    {"a", "b", "c", "d", "e", "f", "g", "h", "i", "j", "k", "l", "m", "n", "o", "p", "q",
     "r", "s", "t", "u", "v", "w", "x", "y", "z", "A", "B", "C", "D", "E", "F", "G", "H",
     "I", "J", "K", "L", "M", "N", "O", "P", "Q", "R", "S", "T", "U", "V", "W", "X", "Y",
     "Z", "0", "1", "2", "3", "4", "5", "6", "7", "8", "9", "_"}

UnknownLanguage == <<"u", "n", "k", "n", "o", "w", "n">>

SnippetPrefix ==
    <<"C", "o", "d", "e", " ", "s", "n", "i", "p", "p", "e", "t", " ", "i", "n", " ">>

\* re.finditer(code_block_pattern, content, re.DOTALL) from the 1-based index
\* from: a fence, an optional run of word characters (the language), a
\* newline, the shortest text up to a newline followed by a fence
RECURSIVE CodeBlocks(_, _)
CodeBlocks(content, from) ==
    LET p == Find(content, Fence, from)
        k == LeadingIn(Drop(content, p + 2), WordChars)
        nl == p + 3 + k
        q == Find(content, <<NL>> \o Fence, nl + 1)
        group1 == SubSeq(content, p + 3, nl - 1)
        language == IF group1 = <<>> THEN UnknownLanguage ELSE group1
    IN IF p = 0 THEN <<>>
       ELSE IF nl > Len(content) \/ content[nl] # NL THEN CodeBlocks(content, p + 1)
       ELSE IF q = 0 THEN <<>>
       ELSE <<[code |-> Strip(SubSeq(content, nl + 1, q - 1)),
               language |-> language,
               description |-> SnippetPrefix \o language,
               line_start |-> CountNL(SubSeq(content, 1, p - 1)) + 1,
               line_end |-> CountNL(SubSeq(content, 1, q + 3)) + 1]>>
                \o CodeBlocks(content, q + 4)

extract_code_snippets(content) == CodeBlocks(content, 1)

-----------------------------------------------------------------------------
(* extract_image_descriptions, extract_metadata                            *)

\* doc.pictures is [present, iterable, items]: the attribute may be missing,
\* present but not a collection (None), or a list of pictures

\* enumerate(doc.pictures) raises TypeError
ImageDescriptionsRaise(doc) == doc.pictures.present /\ ~doc.pictures.iterable

DefaultImageDescription == "Image detected in document"

ImageDescription(i, picture) ==
    [image_id |-> i,
     description |->
         IF picture.description # <<>> THEN picture.description[1]
         ELSE IF picture.caption # <<>> THEN picture.caption[1]
         ELSE DefaultImageDescription,
     confidence |-> "0.8",
     extracted_text |-> picture.text]

\* the value returned when enumerate(doc.pictures) does not raise
extract_image_descriptions(doc) ==
    IF doc.pictures.present
    THEN [i \in 1..Len(doc.pictures.items) |-> ImageDescription(i - 1, doc.pictures.items[i])]
    ELSE <<>>

Lower(s) ==
    [i \in 1..Len(s) |->
        CASE s[i] = "E" -> "e" [] s[i] = "Q" -> "q" [] s[i] = "U" -> "u"
          [] s[i] = "A" -> "a" [] s[i] = "T" -> "t" [] s[i] = "I" -> "i"
          [] s[i] = "O" -> "o" [] s[i] = "N" -> "n" [] OTHER -> s[i]]

EquationWord == <<"e", "q", "u", "a", "t", "i", "o", "n">>

\* args is the argparse namespace; the optional keys of the metadata dict
\* (code_snippets, formulas, image_descriptions) are <<>> while absent
extract_metadata(doc, args) ==
    [title |-> extract_title(doc),
     page_count |-> IF doc.pages # <<>> THEN doc.pages[1] ELSE 1,
     has_images |-> doc.pictures.present /\ doc.pictures.items # <<>>,
     has_tables |-> doc.tables # <<>> /\ doc.tables[1] > 0,
     has_code |-> Contains(doc.markdown, <<Backquote>>),
     has_formulas |-> Contains(doc.markdown, <<"$">>)
                        \/ Contains(Lower(doc.markdown), EquationWord),
     processing_info |->
         [ocr_enabled |-> ~args.no_ocr,
          vlm_enabled |-> ~args.no_vlm,
          code_enrichment_enabled |-> args.enable_code_enrichment,
          formula_enrichment_enabled |-> args.enable_formula_enrichment,
          docling_version |-> "docling.__version__",
          vlm_model |-> IF ~args.no_vlm THEN <<args.vlm_model>> ELSE <<>>],
     code_snippets |-> <<>>,
     formulas |-> <<>>,
     image_descriptions |-> <<>>]

-----------------------------------------------------------------------------
(* DoclingProcessor.process_pdf and its helpers                            *)

RECURSIVE TitleFromContent(_, _)
TitleFromContent(lines, i) ==
    LET line == Strip(lines[i])
    IN IF i > Len(lines) THEN UntitledDocument
       ELSE IF StartsWith(line, <<"#", " ">>) THEN Strip(Drop(line, 2))
       ELSE IF line # <<>> /\ ~StartsWith(line, <<"#">>)
            THEN Take(line, 100) \o (IF Len(line) > 100 THEN <<".", ".", ".">> ELSE <<>>)
       ELSE TitleFromContent(lines, i + 1)

_extract_title_from_content(markdown) == TitleFromContent(Split(markdown), 1)

\* len(None) raises inside the try, and the except returns False
_has_images(document) ==
    document.pictures.present /\ document.pictures.iterable /\ Len(document.pictures.items) > 0

_has_tables(document) == document.tables # <<>> /\ document.tables[1] > 0

ErrorResult(message) == [success |-> FALSE, content |-> <<>>, error |-> <<message>>]

SuccessResult(markdown, sections, metadata) ==
    [success |-> TRUE,
     content |-> <<[markdown |-> markdown, sections |-> sections, metadata |-> metadata]>>,
     error |-> <<>>]

\* world is what the file system and the converter answer for this run
process_pdf(world, enable_ocr, enable_vlm) ==
    IF ~world.file_exists THEN ErrorResult("PDF file not found")
    ELSE IF world.convert = "raises" THEN ErrorResult("Error processing PDF")
    ELSE IF world.convert = "no_document"
         THEN ErrorResult("Failed to process PDF - no document returned")
    ELSE LET document == world.doc
             markdown_content == document.markdown
             metadata ==
                 [title |-> IF document.title # <<>> /\ document.title[1] # <<>>
                            THEN document.title[1]
                            ELSE _extract_title_from_content(markdown_content),
                  page_count |-> IF document.pages # <<>> THEN document.pages[1] ELSE 0,
                  has_images |-> _has_images(document),
                  has_tables |-> _has_tables(document),
                  processing_info |->
                      [ocr_enabled |-> enable_ocr,
                       vlm_enabled |-> enable_vlm,
                       docling_version |-> "latest"]]
         IN SuccessResult(markdown_content, _create_sections(markdown_content), metadata)

-----------------------------------------------------------------------------
(* Markdown inputs of the segmenters                                       *)

\* "a a ... a" with n words
Words(n) == [i \in 1..(2 * n - 1) |-> IF i % 2 = 1 THEN "a" ELSE " "]

SegLines ==
    { <<>>,
      <<" ">>,
      <<"a">>,
      <<"b", " ">>,
      <<"#", " ", "a">>,
      <<"#">>,
      <<" ", "#", "#", " ", "b">>,
      <<"#", "b", " ", "#">> }

BigLine == Words(BigWords)

LinesUpTo(lineSet, n) == UNION {[1..k -> lineSet] : k \in 1..n}

SegInputs ==
    {Join(ls) : ls \in LinesUpTo(SegLines, MaxLines)}
        \cup {Join(ls) : ls \in LinesUpTo(SegLines \cup {BigLine}, MaxBigLines)}

-----------------------------------------------------------------------------
(* Specification of the segmenters: the function is applied to an input    *)

InitSections ==
    /\ pc = "start"
    /\ arg \in SegInputs
    /\ ret = <<>>
    /\ frame = <<>>
    /\ stdout = <<>>
    /\ exit_status = <<>>

CallProcessSections ==
    /\ pc = "start"
    /\ ret' = process_sections(arg)
    /\ pc' = "process_sections"
    /\ UNCHANGED <<arg, frame, stdout, exit_status>>

CallCreateSections ==
    /\ pc = "start"
    /\ ret' = _create_sections(arg)
    /\ pc' = "_create_sections"
    /\ UNCHANGED <<arg, frame, stdout, exit_status>>

NextSections == CallProcessSections \/ CallCreateSections

SpecSections == InitSections /\ [][NextSections]_vars

-----------------------------------------------------------------------------
(* Properties of the segmenters                                            *)

\* a line beginning with '#'
HeadingLine(line) == Len(line) > 0 /\ line[1] = "#"

\* a non-blank line that is not a heading
BodyLine(line) == ~HeadingLine(line) /\ \E i \in 1..Len(line) : line[i] \notin Whitespace

HeadingIdx(lines) == {i \in 1..Len(lines) : HeadingLine(lines[i])}

\* index of the k-th heading line
NthHeading(lines, k) ==
    CHOOSE i \in HeadingIdx(lines) : Cardinality({j \in HeadingIdx(lines) : j < i}) = k - 1

\* the heading at index h is followed by a body line before the next heading
HasBody(lines, h) ==
    \E j \in (h + 1)..Len(lines) :
        BodyLine(lines[j]) /\ \A k \in (h + 1)..j : ~HeadingLine(lines[k])

\* at least one heading, and every heading has a body
AllHeadingsHaveBody(lines) ==
    HeadingIdx(lines) # {} /\ \A h \in HeadingIdx(lines) : HasBody(lines, h)

\* indexes of the body lines before the first heading
LeadingIdx(lines) ==
    {i \in 1..Len(lines) : BodyLine(lines[i]) /\ \A j \in 1..i : ~HeadingLine(lines[j])}

\* s.split(): the whitespace-delimited words of s, in order
RECURSIVE WordSeq(_)
WordSeq(s) ==
    LET t == LStrip(s, Whitespace)
        n == Len(t) - Len(LStrip(t, {t[i] : i \in 1..Len(t)} \ Whitespace))
    IN IF t = <<>> THEN <<>> ELSE <<SubSeq(t, 1, n)>> \o WordSeq(Drop(t, n))

\* all non-heading lines of the input, in order
BodyOf(markdown) == Join(SelectSeq(Split(markdown), LAMBDA l : ~HeadingLine(l)))

ContentsOf(sections) == Join([i \in 1..Len(sections) |-> sections[i].content])

Segmented == pc \in {"process_sections", "_create_sections"}

\* C1: the order_index values of the sections returned by process_sections
\* and by _create_sections are 0, 1, ..., k-1 in list order.
C1_OrderIndexContiguous ==
    Segmented => \A i \in 1..Len(ret) : ret[i].order_index = i - 1

\* C2: every non-blank non-heading line before the first heading appears in
\* the content of some section returned by process_sections.
C2_LeadingTextKept ==
    pc = "process_sections" =>
        \A i \in LeadingIdx(Split(arg)) :
            \E k \in 1..Len(ret) : Contains(ret[k].content, Strip(Split(arg)[i]))

\* C3: when the input has N >= 1 heading lines and each is followed by a body
\* line before the next heading or the end, process_sections returns exactly
\* N sections, the k-th with order_index k-1 and the k-th heading's text,
\* stripped of '#' markers and surrounding whitespace, as its title.
C3_OneSectionPerHeading ==
    (pc = "process_sections" /\ AllHeadingsHaveBody(Split(arg))) =>
        LET lines == Split(arg)
        IN /\ Len(ret) = Cardinality(HeadingIdx(lines))
           /\ \A k \in 1..Len(ret) :
                 /\ ret[k].order_index = k - 1
                 /\ ret[k].title = Strip(StripChars(lines[NthHeading(lines, k)], {"#"}))

C3_Witness ==
    /\ pc = "process_sections"
    /\ AllHeadingsHaveBody(Split(arg))
    /\ Cardinality(HeadingIdx(Split(arg))) = 2
    /\ Len(ret) = 2
    /\ ret[1].title # ret[2].title

IsContentSection(sections, markdown) ==
    /\ Len(sections) = 1
    /\ sections[1].title = ContentTitle
    /\ sections[1].order_index = 0
    /\ sections[1].content = Strip(markdown)

\* C4 (as stated): for every non-empty input without a heading line,
\* whitespace-only inputs included, process_sections returns exactly one
\* section titled "Content" with order_index 0 and the trimmed input as content.
C4_ContentSectionForAnyNonEmpty ==
    (pc = "process_sections" /\ arg # <<>> /\ HeadingIdx(Split(arg)) = {}) =>
        IsContentSection(ret, arg)

\* C4 (amended): for every input without a heading line that has a
\* non-whitespace character, process_sections returns exactly one section
\* titled "Content" with order_index 0 and the trimmed input as content; for a
\* whitespace-only (or empty) input it returns no section.
C4_ContentSectionForNonBlank ==
    (pc = "process_sections" /\ HeadingIdx(Split(arg)) = {}) =>
        IF \E i \in 1..Len(arg) : arg[i] \notin Whitespace
        THEN IsContentSection(ret, arg)
        ELSE ret = <<>>

C4_Witness ==
    /\ pc = "process_sections"
    /\ HeadingIdx(Split(arg)) = {}
    /\ Len(ret) = 1
    /\ ret[1].content # arg
    /\ Len(Split(arg)) > 1

\* C5: the contents of the sections returned by process_sections, joined in
\* list order, have the same words in the same order as the non-heading
\* lines of the input.
C5_RoundTrip ==
    pc = "process_sections" => WordSeq(ContentsOf(ret)) = WordSeq(BodyOf(arg))

\* C8: every section returned by process_sections has estimated_minutes =
\* max(1, round(w / 225)), w the number of whitespace-delimited words of its
\* content; it is an integer >= 1.
C8_EstimatedMinutes ==
    pc = "process_sections" =>
        \A i \in 1..Len(ret) :
            LET w == WordCount(ret[i].content)
                m == ret[i].estimated_minutes
            IN /\ m \in Nat /\ m >= 1
               /\ \E r \in 0..w :
                     /\ 2 * r * WordsPerMinute - WordsPerMinute <= 2 * w
                     /\ 2 * w <= 2 * r * WordsPerMinute + WordsPerMinute
                     /\ m = IF r > 1 THEN r ELSE 1

C8_Witness ==
    /\ pc = "process_sections"
    /\ \E i \in 1..Len(ret) :
          /\ ret[i].estimated_minutes = 2
          /\ ret[i].title # ContentTitle
          /\ WordCount(ret[i].content) = BigWords + 1

-----------------------------------------------------------------------------
(* Specification of extract_title                                          *)

Repeat(c, n) == [i \in 1..n |-> c]

TitleLines ==
    { <<>>,
      <<"a">>,
      <<" ", "b", " ">>,
      <<"#", " ", "b">>,
      <<"#">>,
      Repeat("a", ShortLineLimit - 1),
      <<"#">> \o Repeat("c", TitleLimit + 1) }

\* lines the scan steps over: blank, or not shorter than ShortLineLimit
SkippedLines == {<<>>, Repeat("a", ShortLineLimit)}

TitleTexts ==
    {Join(Repeat(skipped, p) \o ls) :
        p \in 0..MaxPrefix, skipped \in SkippedLines,
        ls \in LinesUpTo(TitleLines, MaxTitleLines)}

TitleDocs ==
    [title : {<<>>, << <<>> >>, << <<"T">> >>, <<Repeat("t", TitleLimit + 1)>>},
     main_text : {<<>>} \cup {<<t>> : t \in TitleTexts}]

InitTitle ==
    /\ pc = "start"
    /\ arg \in TitleDocs
    /\ ret = <<>>
    /\ frame = <<>>
    /\ stdout = <<>>
    /\ exit_status = <<>>

CallExtractTitle ==
    /\ pc = "start"
    /\ ret' = extract_title(arg)
    /\ pc' = "extract_title"
    /\ UNCHANGED <<arg, frame, stdout, exit_status>>

NextTitle == CallExtractTitle

SpecTitle == InitTitle /\ [][NextTitle]_vars

\* C9: without an explicit title, if any of the first 10 lines of the text
\* is a heading the title is that heading's stripped text; only when none is
\* a heading the first non-empty line shorter than 100 characters is used;
\* with neither the title is "Untitled Document"; the result has at most 200
\* characters.
C9_HeadingPreferred ==
    (pc = "extract_title" /\ (arg.title = <<>> \/ arg.title[1] = <<>>)) =>
        LET lines == IF arg.main_text = <<>> THEN <<>>
                     ELSE Take(Split(arg.main_text[1]), TitleScanLines)
            headings == {i \in 1..Len(lines) : HeadingLine(lines[i])}
            short == {i \in 1..Len(lines) :
                         Strip(lines[i]) # <<>> /\ Len(Strip(lines[i])) < ShortLineLimit}
            expected == IF headings # {} THEN Strip(StripChars(lines[Min(headings)], {"#"}))
                        ELSE IF short # {} THEN Strip(lines[Min(short)])
                        ELSE UntitledDocument
        IN ret = Take(expected, TitleLimit) /\ Len(ret) <= TitleLimit

-----------------------------------------------------------------------------
(* Specification of extract_formulas                                       *)

RECURSIVE Flatten(_)
Flatten(ss) == IF ss = <<>> THEN <<>> ELSE Head(ss) \o Flatten(Tail(ss))

FormulaBlocks ==
    { <<"$", "$">>, <<"$">>, <<" ">>, <<"x">>, <<NL>>, BeginEquation, EndEquation }

FormulaTexts ==
    {Flatten(bs) : bs \in UNION {[1..n -> FormulaBlocks] : n \in 0..MaxFormulaBlocks}}

InitFormulas ==
    /\ pc = "start"
    /\ arg \in FormulaTexts
    /\ ret = <<>>
    /\ frame = <<>>
    /\ stdout = <<>>
    /\ exit_status = <<>>

CallExtractFormulas ==
    /\ pc = "start"
    /\ ret' = extract_formulas(arg)
    /\ pc' = "extract_formulas"
    /\ UNCHANGED <<arg, frame, stdout, exit_status>>

NextFormulas == CallExtractFormulas

SpecFormulas == InitFormulas /\ [][NextFormulas]_vars

Dollar == <<"$", "$">>

\* the text is $$X$$ and X contains no '$'
IsDisplayBlock(text) ==
    /\ Len(text) >= 4
    /\ SubSeq(text, 1, 2) = Dollar
    /\ SubSeq(text, Len(text) - 1, Len(text)) = Dollar
    /\ \A i \in 3..(Len(text) - 2) : text[i] # "$"

DisplayBody(text) == SubSeq(text, 3, Len(text) - 2)

\* x contains \begin{equation} with \end{equation} somewhere after it
HasEquationEnv(x) ==
    \E i \in 1..Len(x) :
        /\ i + Len(BeginEquation) - 1 <= Len(x)
        /\ MatchAt(x, BeginEquation, i)
        /\ Find(x, EndEquation, i + Len(BeginEquation)) # 0

OneFormulaOrNone(text, formulas) ==
    IF Strip(DisplayBody(text)) # <<>>
    THEN /\ Len(formulas) = 1
         /\ formulas[1].formula = Strip(DisplayBody(text))
         /\ formulas[1].type = "mathematical"
    ELSE formulas = <<>>

NoEmptyFormula(formulas) == \A i \in 1..Len(formulas) : formulas[i].formula # <<>>

\* C10 (as stated): for a text $$X$$ with no '$' in X, extract_formulas
\* returns exactly one Formula (X trimmed, type "mathematical") when X has a
\* non-whitespace character and none otherwise; no returned Formula has an
\* empty formula string.
C10_SingleDisplayBlock ==
    pc = "extract_formulas" =>
        /\ IsDisplayBlock(arg) => OneFormulaOrNone(arg, ret)
        /\ NoEmptyFormula(ret)

\* C10 (amended): the same, for X that contains neither '$' nor a
\* \begin{equation} ... \end{equation} environment.
C10_SingleDisplayBlockNoEnv ==
    pc = "extract_formulas" =>
        /\ (IsDisplayBlock(arg) /\ ~HasEquationEnv(DisplayBody(arg)))
              => OneFormulaOrNone(arg, ret)
        /\ NoEmptyFormula(ret)

C10_Witness ==
    /\ pc = "extract_formulas"
    /\ IsDisplayBlock(arg)
    /\ ~HasEquationEnv(DisplayBody(arg))
    /\ Strip(DisplayBody(arg)) # DisplayBody(arg)
    /\ Len(ret) = 1
    /\ ret[1].formula = <<"x">>

-----------------------------------------------------------------------------
(* Invocations of the two command-line entry points                        *)

NoPictures == [present |-> FALSE, iterable |-> FALSE, items |-> <<>>]

\* the attribute exists but holds None
MalformedPictures == [present |-> TRUE, iterable |-> FALSE, items |-> <<>>]

PictureLists ==
    { <<>>,
      << [description |-> <<>>, caption |-> <<"figure">>, text |-> <<>>],
         [description |-> <<"chart">>, caption |-> <<"figure">>, text |-> <<"12">>] >> }

PictureFields ==
    {NoPictures, MalformedPictures}
        \cup {[present |-> TRUE, iterable |-> TRUE, items |-> ps] : ps \in PictureLists}

MainMarkdowns ==
    { <<>>,
      <<"a", NL, "#", " ", "a", NL, "b", " ", "$", "x", "$">>,
      Fence \o <<"p", "y", NL, "x", NL>> \o Fence }

TitleFields ==
    { [title |-> <<>>, main_text |-> <<>>],
      [title |-> << <<"T">> >>, main_text |-> <<>>],
      [title |-> <<>>, main_text |-> << <<"a", NL, "#", " ", "b">> >>] }

PageFields == { [pages |-> <<>>, tables |-> <<>>], [pages |-> <<2>>, tables |-> <<1>>] }

MainDocs ==
    {[markdown |-> md, title |-> t.title, main_text |-> t.main_text,
      pages |-> pg.pages, tables |-> pg.tables, pictures |-> pics] :
        md \in MainMarkdowns, t \in TitleFields, pg \in PageFields, pics \in PictureFields}

NoDoc ==
    [markdown |-> <<>>, title |-> <<>>, main_text |-> <<>>, pages |-> <<>>,
     tables |-> <<>>, pictures |-> NoPictures]

\* what the interpreter, the file system and the converter answer in a run
Worlds ==
    {w \in [docling_installed : BOOLEAN, vlm_importable : BOOLEAN, file_exists : BOOLEAN,
            convert : {"raises", "no_document", "document"}, doc : MainDocs \cup {NoDoc}] :
        /\ ~w.file_exists => w.convert = "raises"
        /\ w.convert # "document" <=> w.doc = NoDoc}

\* the parsed command line
ArgSets ==
    [pdf_path : BOOLEAN, no_ocr : BOOLEAN, no_vlm : BOOLEAN, vlm_model : {"SmolDocling"},
     enable_code_enrichment : BOOLEAN, enable_formula_enrichment : BOOLEAN]

\* main() runs after argparse accepted the command line, so pdf_path is set;
\* the class-based main reads only argv[1], --no-ocr and --no-vlm
Invocations ==
    {i \in [entry : {"main", "DoclingProcessor.main"}, args : ArgSets, world : Worlds] :
        /\ i.entry = "main" => i.args.pdf_path
        /\ i.entry = "DoclingProcessor.main" =>
              /\ ~i.args.enable_code_enrichment /\ ~i.args.enable_formula_enrichment
              /\ i.world.docling_installed /\ ~i.world.vlm_importable}

NoFrame ==
    [vlm_available |-> FALSE, doc |-> NoDoc, markdown_content |-> <<>>, sections |-> <<>>,
     metadata |-> <<>>, result |-> <<>>, raised |-> <<>>]

InitMain ==
    /\ pc = "main"
    /\ arg \in Invocations
    /\ ret = <<>>
    /\ frame = NoFrame
    /\ stdout = <<>>
    /\ exit_status = <<>>

\* an except clause of main(): one error object is printed and sys.exit(1)
ExitWithError(message, exception, where) ==
    /\ stdout' = Append(stdout, ErrorResult(message))
    /\ exit_status' = <<1>>
    /\ pc' = "exited"
    /\ frame' = [frame EXCEPT !.raised = <<[type |-> exception, in |-> where]>>]
    /\ UNCHANGED <<arg, ret>>

\* main(): the imports of docling and of the VLM components
MainImport ==
    /\ pc = "main" /\ arg.entry = "main"
    /\ IF ~arg.world.docling_installed
       THEN ExitWithError("Docling not installed or missing components",
                          "ImportError", "import")
       ELSE /\ frame' = [frame EXCEPT !.vlm_available = arg.world.vlm_importable]
            /\ pc' = "convert"
            /\ UNCHANGED <<arg, ret, stdout, exit_status>>

\* main(): pipeline set-up, converter.convert(pdf_path), "if not result.document"
MainConvert ==
    /\ pc = "convert"
    /\ IF arg.world.convert = "raises"
       THEN ExitWithError("Processing failed", "Exception", "convert")
       ELSE IF arg.world.convert = "no_document"
       THEN ExitWithError("Processing failed", "Exception", "no_document")
       ELSE /\ frame' = [frame EXCEPT !.doc = arg.world.doc]
            /\ pc' = "extract"
            /\ UNCHANGED <<arg, ret, stdout, exit_status>>

\* main(): export_to_markdown, process_sections, extract_metadata
MainExtract ==
    /\ pc = "extract"
    /\ frame' = [frame EXCEPT
                    !.markdown_content = frame.doc.markdown,
                    !.sections = process_sections(frame.doc.markdown),
                    !.metadata = <<extract_metadata(frame.doc, arg.args)>>]
    /\ pc' = "enrich"
    /\ UNCHANGED <<arg, ret, stdout, exit_status>>

\* variant: the formulas are gated by the code-enrichment flag
MainEnrich_WrongFlag ==
    /\ pc = "enrich"
    /\ LET m0 == frame.metadata[1]
           m1 == IF arg.args.enable_code_enrichment
                 THEN [m0 EXCEPT !.code_snippets = <<extract_code_snippets(frame.markdown_content)>>]
                 ELSE m0
           m2 == IF arg.args.enable_code_enrichment
                 THEN [m1 EXCEPT !.formulas = <<extract_formulas(frame.markdown_content)>>]
                 ELSE m1
           images == frame.vlm_available /\ ~arg.args.no_vlm /\ frame.doc.pictures.present
       IN IF images /\ ImageDescriptionsRaise(frame.doc)
          THEN ExitWithError("Processing failed", "TypeError", "extract_image_descriptions")
          ELSE /\ frame' = [frame EXCEPT !.metadata =
                               <<IF images
                                 THEN [m2 EXCEPT !.image_descriptions =
                                          <<extract_image_descriptions(frame.doc)>>]
                                 ELSE m2>>]
               /\ pc' = "emit"
               /\ UNCHANGED <<arg, ret, stdout, exit_status>>

\* main(): the three optional enrichment stages, in the order of the code
MainEnrich ==
    /\ pc = "enrich"
    /\ LET m0 == frame.metadata[1]
           m1 == IF arg.args.enable_code_enrichment
                 THEN [m0 EXCEPT !.code_snippets = <<extract_code_snippets(frame.markdown_content)>>]
                 ELSE m0
           m2 == IF arg.args.enable_formula_enrichment
                 THEN [m1 EXCEPT !.formulas = <<extract_formulas(frame.markdown_content)>>]
                 ELSE m1
           images == frame.vlm_available /\ ~arg.args.no_vlm /\ frame.doc.pictures.present
       IN IF images /\ ImageDescriptionsRaise(frame.doc)
          THEN ExitWithError("Processing failed", "TypeError", "extract_image_descriptions")
          ELSE /\ frame' = [frame EXCEPT !.metadata =
                               <<IF images
                                 THEN [m2 EXCEPT !.image_descriptions =
                                          <<extract_image_descriptions(frame.doc)>>]
                                 ELSE m2>>]
               /\ pc' = "emit"
               /\ UNCHANGED <<arg, ret, stdout, exit_status>>

\* main(): print(json.dumps(result_data)) and the normal return
MainEmit ==
    /\ pc = "emit"
    /\ stdout' = Append(stdout,
                        SuccessResult(frame.markdown_content, frame.sections, frame.metadata[1]))
    /\ exit_status' = <<0>>
    /\ pc' = "exited"
    /\ UNCHANGED <<arg, ret, frame>>

\* class-based main(): "if len(sys.argv) < 2"
ClassMainUsage ==
    /\ pc = "main" /\ arg.entry = "DoclingProcessor.main"
    /\ ~arg.args.pdf_path
    /\ stdout' = Append(stdout, ErrorResult("Usage"))
    /\ exit_status' = <<1>>
    /\ pc' = "exited"
    /\ UNCHANGED <<arg, ret, frame>>

\* class-based main(): processor.process_pdf(pdf_path)
ClassMainProcess ==
    /\ pc = "main" /\ arg.entry = "DoclingProcessor.main"
    /\ arg.args.pdf_path
    /\ frame' = [frame EXCEPT
                    !.result = <<process_pdf(arg.world, ~arg.args.no_ocr, ~arg.args.no_vlm)>>]
    /\ pc' = "print"
    /\ UNCHANGED <<arg, ret, stdout, exit_status>>

\* class-based main(): print(json.dumps(result)); the function returns and the
\* interpreter exits with status 0
ClassMainPrint ==
    /\ pc = "print"
    /\ stdout' = Append(stdout, frame.result[1])
    /\ exit_status' = <<0>>
    /\ pc' = "exited"
    /\ UNCHANGED <<arg, ret, frame>>

NextMain ==
    \/ MainImport
    \/ MainConvert
    \/ MainExtract
    \/ MainEnrich
    \/ MainEmit
    \/ ClassMainUsage
    \/ ClassMainProcess
    \/ ClassMainPrint

SpecMain == InitMain /\ [][NextMain]_vars

EnrichmentStages ==
    {"extract_code_snippets", "extract_formulas", "extract_image_descriptions"}

\* C6: in main(), when an optional enrichment stage raises, the run still
\* ends with success = true and emits the sections and metadata computed
\* before the stage.
C6_EnrichmentFailureIsolated ==
    (pc = "exited" /\ arg.entry = "main"
        /\ frame.raised # <<>> /\ frame.raised[1].in \in EnrichmentStages) =>
        /\ Len(stdout) = 1
        /\ stdout[1].success
        /\ stdout[1].content # <<>>
        /\ stdout[1].content[1].sections = frame.sections
        /\ exit_status = <<0>>

\* C7: every invocation of either entry point ends with exactly one JSON
\* object on standard output, with content present iff success, error
\* present iff not success, and a non-zero exit status iff not success.
C7_OneObjectAndStatus ==
    pc = "exited" =>
        /\ Len(stdout) = 1
        /\ (stdout[1].content # <<>>) <=> stdout[1].success
        /\ (stdout[1].error # <<>>) <=> ~stdout[1].success
        /\ (exit_status # <<0>>) <=> ~stdout[1].success

\* C11: on every successful run of main(), metadata has the key code_snippets
\* iff code enrichment was enabled and the key formulas iff formula
\* enrichment was enabled, and the markdown and sections of the result are
\* determined by the converted document alone, whatever the code-enrichment,
\* formula-enrichment, no-OCR and no-VLM flags are.
C11_FlagsGateOnlyTheirKeys ==
    (pc = "exited" /\ arg.entry = "main" /\ Len(stdout) = 1 /\ stdout[1].success) =>
        LET content == stdout[1].content[1]
        IN /\ (content.metadata.code_snippets # <<>>) <=> arg.args.enable_code_enrichment
           /\ (content.metadata.formulas # <<>>) <=> arg.args.enable_formula_enrichment
           /\ content.markdown = arg.world.doc.markdown
           /\ content.sections = process_sections(arg.world.doc.markdown)

C11_Witness ==
    /\ pc = "exited" /\ arg.entry = "main"
    /\ Len(stdout) = 1 /\ stdout[1].success
    /\ arg.args.enable_code_enrichment /\ ~arg.args.enable_formula_enrichment
    /\ arg.args.no_ocr /\ ~arg.args.no_vlm
    /\ stdout[1].content[1].metadata.code_snippets # <<>>
    /\ stdout[1].content[1].metadata.code_snippets[1] # <<>>
    /\ stdout[1].content[1].metadata.formulas = <<>>
    /\ stdout[1].content[1].metadata.image_descriptions # <<>>
    /\ stdout[1].content[1].sections # <<>>

====
